---- MODULE Spec2Model ----
(***************************************************************************)
(* Churn-prediction inference wrapper (app.py).                            *)
(*                                                                         *)
(* The module loads five fitted artifacts, then serves predict() calls.    *)
(* A string is modelled as a sequence of tokens: the token " " is one      *)
(* whitespace character, every other token is a run of non-whitespace      *)
(* characters.  "No phone service" is <<"No", " ", "phone", " ",           *)
(* "service">>.  A float is a cell [nan, num, den] (the rational num/den). *)
(* The fitted encoders follow scikit-learn's defaults: categories sorted,  *)
(* unknown values rejected, dense one-hot output, no clipping.             *)
(***************************************************************************)
EXTENDS Integers, Sequences, FiniteSets, TLC

VARIABLES status, loaded, label_encoders, one_hot_encoder, min_max_scaler,
          model, le_target, call, pinned

vars == <<status, loaded, label_encoders, one_hot_encoder, min_max_scaler,
          model, le_target, call, pinned>>

artifacts == <<label_encoders, one_hot_encoder, min_max_scaler, model, le_target>>

-----------------------------------------------------------------------------
(* Values a caller can pass in a field of the record.                      *)

Str(s) == [t |-> "str", n |-> 0, s |-> s]
Num(n) == [t |-> "num", n |-> n, s |-> <<>>]
None == [t |-> "none", n |-> 0, s |-> <<>>]

(* Floats after coercion, and the entries of the feature vector.           *)
Cell(n) == [nan |-> FALSE, num |-> n, den |-> 1]
Frac(n, d) == [nan |-> FALSE, num |-> n, den |-> d]
NaN == [nan |-> TRUE, num |-> 0, den |-> 1]

WS == " "

-----------------------------------------------------------------------------
(* Column groups of preprocess_data.                                       *)

label_encode_cols == <<"Partner", "Dependents", "PhoneService", "PaperlessBilling", "gender">>

one_hot_encode_cols == <<"MultipleLines", "InternetService", "OnlineSecurity", "OnlineBackup",
                         "DeviceProtection", "TechSupport", "StreamingTV", "StreamingMovies",
                         "Contract", "PaymentMethod">>

(* A slip in the column list: the flag scaled in place of tenure.           *)
scale_cols_with_senior == <<"SeniorCitizen", "MonthlyCharges", "TotalCharges">>

min_max_scale_cols == <<"tenure", "MonthlyCharges", "TotalCharges">>

Range(seq) == {seq[i] : i \in 1..Len(seq)}

(* The categories each encoder was fitted on: the choices of the form,     *)
(* in the sorted order scikit-learn stores them.                           *)
YesNo == << <<"No">>, <<"Yes">> >>
YesNoInternet == << <<"No">>, <<"No", WS, "internet", WS, "service">>, <<"Yes">> >>

FittedLabelEncoders ==
    [Partner |-> YesNo, Dependents |-> YesNo, PhoneService |-> YesNo,
     PaperlessBilling |-> YesNo, gender |-> << <<"Female">>, <<"Male">> >>]

(* categories_ of the one-hot encoder, one entry per fitted column, in the  *)
(* order of one_hot_encode_cols.                                           *)
FittedOneHotEncoder ==
    << << <<"No">>, <<"No", WS, "phone", WS, "service">>, <<"Yes">> >>,
       << <<"DSL">>, <<"Fiber", WS, "optic">>, <<"No">> >>,
       YesNoInternet, YesNoInternet, YesNoInternet,
       YesNoInternet, YesNoInternet, YesNoInternet,
       << <<"Month-to-month">>, <<"One", WS, "year">>, <<"Two", WS, "year">> >>,
       << <<"Bank", WS, "transfer", WS, "(automatic)">>,
          <<"Credit", WS, "card", WS, "(automatic)">>,
          <<"Electronic", WS, "check">>,
          <<"Mailed", WS, "check">> >> >>

-----------------------------------------------------------------------------
(* pandas / Python string and number conversions.                          *)

RECURSIVE LStrip(_)
LStrip(s) == IF s # <<>> /\ Head(s) = WS THEN LStrip(Tail(s)) ELSE s

RECURSIVE RStrip(_)
RStrip(s) == IF s # <<>> /\ s[Len(s)] = WS THEN RStrip(SubSeq(s, 1, Len(s) - 1)) ELSE s

(* str.lstrip() in place of str.strip().                                   *)
StripLeading(s) == LStrip(s)

(* str.strip(): drops leading and trailing whitespace, keeps the interior. *)
Strip(s) == RStrip(LStrip(s))

(* Series.str: only columns of strings have the accessor.                  *)
HasStrAccessor(v) == v.t = "str"

(* The numerals float() is tried on.                                       *)
Numerals == [n \in {"0", "7", "12", "50", "600"} |->
               CASE n = "0" -> 0 [] n = "7" -> 7 [] n = "12" -> 12
                 [] n = "50" -> 50 [] n = "600" -> 600]

(* float(str): surrounding whitespace is ignored, "nan" is a float.        *)
FloatParses(s) == Len(Strip(s)) = 1 /\ Strip(s)[1] \in (DOMAIN Numerals) \cup {"nan"}
ParseFloat(s) == IF Strip(s)[1] = "nan" THEN NaN ELSE Cell(Numerals[Strip(s)[1]])

(* DataFrame.replace(' ', np.nan): a cell that is exactly one space.       *)
ReplaceBlank(v) == IF v.t = "str" /\ v.s = <<WS>> THEN None ELSE v

(* astype(float) of one cell, for a cell that converts.                    *)
Converts(v) == v.t = "str" => FloatParses(v.s)
AsFloat(v) == CASE v.t = "num" -> Cell(v.n)
                [] v.t = "none" -> NaN
                [] v.t = "str" -> ParseFloat(v.s)

(* Column mean over the one-row frame, and fillna with it.                 *)
Mean(x) == x
FillNa(x, m) == IF x.nan THEN m ELSE x

-----------------------------------------------------------------------------
(* Exceptions.                                                             *)

Exc(type, msg, arg) == [type |-> type, msg |-> msg, arg |-> arg]
NoExc == Exc("", "", <<>>)

MsgStrAccessor == "Can only use .str accessor with string values!"
MsgNotFloat == "could not convert string to float"
MsgUnseenLabels == "y contains previously unseen labels"
MsgUnknownCategories == "Found unknown categories"
MsgNaN == "Input X contains NaN."
MsgFeatures == "X has a different number of features than the estimator expects"

(* The first position where bad holds, 0 when it holds nowhere: where a    *)
(* loop over the columns raises.                                           *)
FirstBad(bad) ==
    IF \E i \in 1..Len(bad) : bad[i]
    THEN CHOOSE i \in 1..Len(bad) : bad[i] /\ \A j \in 1..(i - 1) : ~bad[j]
    ELSE 0

-----------------------------------------------------------------------------
(* The fitted transformers' transform operations.                          *)

(* LabelEncoder.transform of one value: its index in classes_.             *)
LabelSeen(classes, s) == s \in Range(classes)
LabelCode(classes, s) == (CHOOSE i \in 1..Len(classes) : classes[i] = s) - 1

(* handle_unknown="ignore": an unknown value passes, its block is zeros.    *)
CategoryKnownIgnored(cats, s) == TRUE

(* OneHotEncoder.transform of one column: the indicator block.             *)
CategoryKnown(cats, s) == s \in Range(cats)
OneHotBlock(cats, s) == [i \in 1..Len(cats) |-> Cell(IF cats[i] = s THEN 1 ELSE 0)]

RECURSIVE Flatten(_)
Flatten(blocks) == IF blocks = <<>> THEN <<>> ELSE Head(blocks) \o Flatten(Tail(blocks))

(* MinMaxScaler: scale_ = 1 / (data_max - data_min), with a zero range     *)
(* replaced by 1 at fit time; transform is X * scale_ + min_, NaN kept.    *)
DataRange(fit) == IF fit.data_max = fit.data_min THEN 1 ELSE fit.data_max - fit.data_min
ScaleCell(fit, x) == IF x.nan THEN NaN ELSE Frac(x.num - fit.data_min, DataRange(fit))

(* partial_fit in place of transform: the fitted range follows the rows.   *)
Lower(a, b) == IF a < b THEN a ELSE b
Higher(a, b) == IF a > b THEN a ELSE b
ScalerAfterPartialFit(scaler, row) ==
    [i \in 1..Len(scaler) |->
       LET v == row[<<"tenure", "MonthlyCharges", "TotalCharges">>[i]]
       IN  IF v.t = "num"
           THEN [data_min |-> Lower(scaler[i].data_min, v.n),
                 data_max |-> Higher(scaler[i].data_max, v.n)]
           ELSE scaler[i]]

(* MinMaxScaler.transform leaves the fitted scaler as it is.                *)
ScalerAfterTransform(scaler, row) == scaler

(* LogisticRegression.predict on one row: the input is validated (finite,  *)
(* fitted width), then the class is the sign of the decision function.     *)
RECURSIVE Product(_)
Product(ds) == IF ds = <<>> THEN 1 ELSE Head(ds) * Product(Tail(ds))

RECURSIVE Dot(_, _, _)
Dot(coef, X, D) ==
    IF X = <<>> THEN 0
    ELSE coef[1] * X[1].num * (D \div X[1].den) + Dot(Tail(coef), Tail(X), D)

HasNaN(X) == \E i \in 1..Len(X) : X[i].nan

(* The sign of intercept + coef . X, computed over the common denominator. *)
DecisionPositive(m, X) ==
    LET D == Product([i \in 1..Len(X) |-> X[i].den])
    IN  m.intercept * D + Dot(m.coef, X, D) > 0

ModelPredict(m, X) == IF DecisionPositive(m, X) THEN 1 ELSE 0

(* LabelEncoder.inverse_transform of one class index.                      *)
InverseTransform(classes, k) == classes[k + 1]

-----------------------------------------------------------------------------
(* preprocess_data(data): [raised, exc, X]                                 *)

Raise(e) == [raised |-> TRUE, exc |-> e, X |-> <<>>]
Return(X) == [raised |-> FALSE, exc |-> NoExc, X |-> X]

(* The blocks stacked in another order.                                    *)
HstackScaledFirst(labels, scaled, onehot) == scaled \o labels \o onehot

(* np.hstack((df[label_encode_cols].values, scaled_numerical, one_hot_encoded)) *)
Hstack(labels, scaled, onehot) == labels \o scaled \o onehot

preprocess_data(encs, ohe, scaler, data) ==
    LET catCols == label_encode_cols \o one_hot_encode_cols
        noStr == FirstBad([i \in 1..Len(catCols) |-> ~HasStrAccessor(data[catCols[i]])])
    IN
    IF noStr # 0 THEN Raise(Exc("AttributeError", MsgStrAccessor, <<>>))
    ELSE
    LET stripped == [c \in Range(catCols) |-> Strip(data[c].s)]
        replaced == [c \in Range(min_max_scale_cols) |-> ReplaceBlank(data[c])]
        noFloat == FirstBad([i \in 1..Len(min_max_scale_cols) |->
                               ~Converts(replaced[min_max_scale_cols[i]])])
    IN
    IF noFloat # 0
    THEN Raise(Exc("ValueError", MsgNotFloat, replaced[min_max_scale_cols[noFloat]].s))
    ELSE
    LET floats == [i \in 1..Len(min_max_scale_cols) |-> AsFloat(replaced[min_max_scale_cols[i]])]
        filled == [i \in 1..Len(floats) |-> FillNa(floats[i], Mean(floats[i]))]
        unseen == FirstBad([i \in 1..Len(label_encode_cols) |->
                              ~LabelSeen(encs[label_encode_cols[i]],
                                         stripped[label_encode_cols[i]])])
    IN
    IF unseen # 0
    THEN Raise(Exc("ValueError", MsgUnseenLabels, stripped[label_encode_cols[unseen]]))
    ELSE
    LET labels == [i \in 1..Len(label_encode_cols) |->
                     Cell(LabelCode(encs[label_encode_cols[i]], stripped[label_encode_cols[i]]))]
        unknown == FirstBad([i \in 1..Len(one_hot_encode_cols) |->
                               ~CategoryKnown(ohe[i], stripped[one_hot_encode_cols[i]])])
    IN
    IF unknown # 0
    THEN Raise(Exc("ValueError", MsgUnknownCategories, stripped[one_hot_encode_cols[unknown]]))
    ELSE
    LET one_hot_encoded == Flatten([i \in 1..Len(one_hot_encode_cols) |->
                                      OneHotBlock(ohe[i], stripped[one_hot_encode_cols[i]])])
        scaled_numerical == [i \in 1..Len(filled) |-> ScaleCell(scaler[i], filled[i])]
    IN  Return(Hstack(labels, scaled_numerical, one_hot_encoded))

-----------------------------------------------------------------------------
(* predict(...): the outcome of one call.                                  *)

(* except Exception: every exception class the steps raise derives from it. *)
ExceptionSubclasses == {"ValueError", "AttributeError", "KeyError", "TypeError", "IndexError"}
(* except ValueError in place of except Exception.                         *)
CaughtValueErrorOnly(e) == e.type = "ValueError"

Caught(e) == e.type \in ExceptionSubclasses

(* The test turned around: anything but 'No' counts as churn.              *)
VerdictUnlessNo(label) == IF label # <<"No">> THEN "Churn" ELSE "No Churn"

(* "Churn" if prediction[0] == 'Yes' else "No Churn"                       *)
Verdict(label) == IF label = <<"Yes">> THEN "Churn" ELSE "No Churn"

Text(t, arg) == [text |-> t, arg |-> arg]
NoResult == Text("", <<>>)

Outcome(data, X, invoked, label, e, result) ==
    [data |-> data, X |-> X, invoked |-> invoked, label |-> label, exc |-> e,
     escaped |-> (e # NoExc /\ ~Caught(e)),
     result |-> IF e = NoExc THEN result
                ELSE IF Caught(e) THEN Text(e.msg, e.arg) ELSE NoResult]

predict(encs, ohe, scaler, m, target, data) ==
    LET pre == preprocess_data(encs, ohe, scaler, data) IN
    IF pre.raised THEN Outcome(data, <<>>, FALSE, <<>>, pre.exc, NoResult)
    ELSE IF HasNaN(pre.X)
    THEN Outcome(data, pre.X, TRUE, <<>>, Exc("ValueError", MsgNaN, <<>>), NoResult)
    ELSE IF Len(pre.X) # Len(m.coef)
    THEN Outcome(data, pre.X, TRUE, <<>>, Exc("ValueError", MsgFeatures, <<>>), NoResult)
    ELSE LET k == ModelPredict(m, pre.X) IN
    IF k + 1 > Len(target)
    THEN Outcome(data, pre.X, TRUE, <<>>, Exc("ValueError", MsgUnseenLabels, <<>>), NoResult)
    ELSE LET label == InverseTransform(target, k)
         IN  Outcome(data, pre.X, TRUE, label, NoExc, Text(Verdict(label), <<>>))

-----------------------------------------------------------------------------
(* What the artifact files can hold.                                       *)

Fit(lo, hi) == [data_min |-> lo, data_max |-> hi]

(* min_max_scaler.pkl: fitted per column (data_min_, data_max_); a column  *)
(* that was constant in the training data has data_min_ = data_max_.       *)
ScalerFits ==
    { << Fit(0, 72), Fit(18, 118), Fit(0, 1000) >>,
      << Fit(5, 5), Fit(18, 118), Fit(0, 1000) >>,
      << Fit(0, 72), Fit(20, 20), Fit(0, 1000) >>,
      << Fit(0, 72), Fit(18, 118), Fit(20, 20) >> }

(* logistic_regression_model.pkl: coef_ over the 39 columns, intercept_.   *)
FittedModel ==
    [coef |-> << 0, -1, 0, 1, 0,
                 -4, 2, -1,
                 0, 0, 1,   -1, 2, -1,   1, -1, 0,   1, -1, 0,   0, 0, 0,
                 1, -1, 0,   0, 0, 1,   0, 0, 1,   2, 0, -2,   0, 0, 1, 0 >>,
     intercept |-> -2]

(* label_encoder_target.pkl: classes_ of the target column.                *)
TargetFits == { << <<"No">>, <<"Yes">> >>, << <<"no">>, <<"yes">> >>, << <<"No">> >> }

Unbound == <<>>

-----------------------------------------------------------------------------
(* The records a caller sends.                                             *)

MaxEdits == 1

Scenario ==
    [gender |-> Str(<<"Female">>), SeniorCitizen |-> Num(0), Partner |-> Str(<<"Yes">>),
     Dependents |-> Str(<<"No">>), tenure |-> Num(12), PhoneService |-> Str(<<"Yes">>),
     MultipleLines |-> Str(<<"No">>), InternetService |-> Str(<<"DSL">>),
     OnlineSecurity |-> Str(<<"Yes">>), OnlineBackup |-> Str(<<"No">>),
     DeviceProtection |-> Str(<<"No">>), TechSupport |-> Str(<<"No">>),
     StreamingTV |-> Str(<<"No">>), StreamingMovies |-> Str(<<"No">>),
     Contract |-> Str(<<"One", WS, "year">>), PaperlessBilling |-> Str(<<"No">>),
     PaymentMethod |-> Str(<<"Mailed", WS, "check">>), MonthlyCharges |-> Num(50),
     TotalCharges |-> Num(600)]

BaseRecords ==
    { Scenario,
      [Scenario EXCEPT !.TotalCharges = Str(<<WS>>)],
      [Scenario EXCEPT !.MonthlyCharges = Str(<<"abc">>)] }

Fields == DOMAIN Scenario

(* The categories of a categorical field, as the form offers them.         *)
Choices(f) ==
    IF f \in DOMAIN FittedLabelEncoders THEN Range(FittedLabelEncoders[f])
    ELSE LET i == CHOOSE j \in 1..Len(one_hot_encode_cols) : one_hot_encode_cols[j] = f
         IN  Range(FittedOneHotEncoder[i])

Categorical == Range(label_encode_cols) \cup Range(one_hot_encode_cols)

FieldValues(f) ==
    IF f \in Categorical
    THEN {Str(c) : c \in Choices(f)}
           \cup {Str(<<WS>> \o Scenario[f].s), Str(Scenario[f].s \o <<WS>>),
                 Str(<<"Cable">>), Num(1)}
    ELSE IF f = "SeniorCitizen"
    THEN {Num(0), Num(1), Num(2), Str(<<"x">>), None}
    ELSE {Num(0), Num(12), Num(50), Num(600), None,
          Str(<<WS>>), Str(<<WS, WS>>), Str(<<"abc">>), Str(<<"7">>),
          Str(<<WS, "12">>), Str(<<"nan">>)}

(* The parameters of predict, in the order of its signature.              *)
Parameters ==
    <<"gender", "SeniorCitizen", "Partner", "Dependents", "tenure", "PhoneService",
      "MultipleLines", "InternetService", "OnlineSecurity", "OnlineBackup",
      "DeviceProtection", "TechSupport", "StreamingTV", "StreamingMovies", "Contract",
      "PaperlessBilling", "PaymentMethod", "MonthlyCharges", "TotalCharges">>

Edit(r, f, v) == [r EXCEPT ![f] = v]

-----------------------------------------------------------------------------
(* The program: module-level loading, launch, then predict calls.          *)

Init ==
    /\ status = "loading"
    /\ loaded = 0
    /\ label_encoders = Unbound
    /\ one_hot_encoder = Unbound
    /\ min_max_scaler = Unbound
    /\ model = Unbound
    /\ le_target = Unbound
    /\ call = <<>>
    /\ pinned = <<>>

LoadLabelEncoders ==
    /\ status = "loading" /\ loaded = 0
    /\ label_encoders' = FittedLabelEncoders
    /\ loaded' = 1
    /\ UNCHANGED <<status, one_hot_encoder, min_max_scaler, model, le_target, call, pinned>>

LoadOneHotEncoder ==
    /\ status = "loading" /\ loaded = 1
    /\ one_hot_encoder' = FittedOneHotEncoder
    /\ loaded' = 2
    /\ UNCHANGED <<status, label_encoders, min_max_scaler, model, le_target, call, pinned>>

LoadMinMaxScaler ==
    /\ status = "loading" /\ loaded = 2
    /\ \E fit \in ScalerFits : min_max_scaler' = fit
    /\ loaded' = 3
    /\ UNCHANGED <<status, label_encoders, one_hot_encoder, model, le_target, call, pinned>>

LoadModel ==
    /\ status = "loading" /\ loaded = 3
    /\ model' = FittedModel
    /\ loaded' = 4
    /\ UNCHANGED <<status, label_encoders, one_hot_encoder, min_max_scaler, le_target, call, pinned>>

LoadTarget ==
    /\ status = "loading" /\ loaded = 4
    /\ \E fit \in TargetFits : le_target' = fit
    /\ loaded' = 5
    /\ UNCHANGED <<status, label_encoders, one_hot_encoder, min_max_scaler, model, call, pinned>>

(* A load error swallowed, the module running on to launch().             *)
AfterLoadErrorIgnored(st) == "serving"

(* joblib.load raises: the module stops at that line.                      *)
AfterLoadError(st) == "failed"

LoadFails ==
    /\ status = "loading" /\ loaded < 5
    /\ status' = AfterLoadError(status)
    /\ UNCHANGED <<loaded, label_encoders, one_hot_encoder, min_max_scaler, model, le_target,
                   call, pinned>>

(* gr.Interface(...).launch(): the last statement of the module.           *)
LaunchReached(n) == n = 5

Launch ==
    /\ status = "loading" /\ LaunchReached(loaded)
    /\ status' = "serving"
    /\ UNCHANGED <<loaded, label_encoders, one_hot_encoder, min_max_scaler, model, le_target,
                   call, pinned>>

(* One request at a time: a call is accepted while serving and idle.      *)
Accepting == status = "serving" /\ call = <<>>

(* predict(...) as one step: the encoders transform, the classifier        *)
(* predicts, the label is decoded and the string is returned.  The scaler *)
(* is used only when every earlier step of preprocess_data went through.  *)
PredictCall(data) ==
    /\ call' = << predict(label_encoders, one_hot_encoder, min_max_scaler, model, le_target,
                          data) >>
    /\ min_max_scaler' = IF call'[1].X # <<>>
                         THEN ScalerAfterTransform(min_max_scaler, data)
                         ELSE min_max_scaler
    /\ UNCHANGED <<status, loaded, label_encoders, one_hot_encoder, model, le_target>>

Predict(data) == PredictCall(data) /\ UNCHANGED pinned

(* The call has returned: its locals (data, df, X_new) are gone.           *)
Respond ==
    /\ call # <<>>
    /\ call' = <<>>
    /\ UNCHANGED <<status, loaded, label_encoders, one_hot_encoder, min_max_scaler, model,
                   le_target, pinned>>

(* A caller sends a base record with up to k more fields edited, the      *)
(* edited fields taken in parameter order from position `from` on.        *)
RECURSIVE Send(_, _, _)
Send(r, k, from) ==
    \/ Predict(r)
    \/ /\ k > 0
       /\ \E j \in from..Len(Parameters) : \E v \in FieldValues(Parameters[j]) :
            Send(Edit(r, Parameters[j], v), k - 1, j + 1)

Next ==
    \/ LoadLabelEncoders
    \/ LoadOneHotEncoder
    \/ LoadMinMaxScaler
    \/ LoadModel
    \/ LoadTarget
    \/ LoadFails
    \/ Launch
    \/ Accepting /\ \E base \in BaseRecords : Send(base, MaxEdits, 1)
    \/ Respond

Spec == Init /\ [][Next]_vars

Last == call[1]

Returned == call # <<>>

Verdicts == {"Churn", "No Churn"}

-----------------------------------------------------------------------------
(* The declared domain of each field.                                      *)

ValidField(data, f) ==
    IF f \in Categorical THEN data[f].t = "str" /\ data[f].s \in Choices(f)
    ELSE IF f = "SeniorCitizen" THEN data[f] \in {Num(0), Num(1)}
    ELSE data[f].t = "num" /\ data[f].n >= 0

ValidRecord(data) == \A f \in Fields : ValidField(data, f)

(* The string is no category of the field, with or without padding.        *)
Unrecognized(data, f) ==
    f \in Categorical /\ data[f].t = "str" /\ data[f].s \notin
        UNION {{c, <<WS>> \o c, c \o <<WS>>, <<WS>> \o c \o <<WS>>} : c \in Choices(f)}

UnknownCategoryMessages == {MsgUnseenLabels, MsgUnknownCategories}

(* The steps ahead of the encoders go through: every categorical value is *)
(* a string and every numeric value converts to a float.                  *)
ReachesEncoders(data) ==
    /\ \A f \in Categorical : data[f].t = "str"
    /\ \A f \in {"tenure", "MonthlyCharges", "TotalCharges"} :
         data[f].t = "str" /\ data[f].s # <<WS>> =>
           data[f].s \in { <<"7">>, <<WS, "12">>, <<"nan">> }

-----------------------------------------------------------------------------
C2_NoNaNIntoClassifier ==
    /\ Returned
    /\ Last.data.TotalCharges = Str(<<WS>>)
    /\ \A f \in Fields \ {"TotalCharges"} : ValidField(Last.data, f)
    => /\ ~Last.escaped
       /\ ~(Last.invoked /\ HasNaN(Last.X))

(* C3: every call returns "Churn", "No Churn" or the message of the        *)
(* exception that was raised; no exception leaves predict and the process  *)
(* goes on serving.                                                        *)
C3_AlwaysAString ==
    Returned =>
        /\ ~Last.escaped
        /\ status = "serving"
        /\ IF Last.exc = NoExc
           THEN Last.result.text \in Verdicts
           ELSE Last.result = Text(Last.exc.msg, Last.exc.arg)
        /\ Last.result.text \in Verdicts \cup
             {MsgStrAccessor, MsgNotFloat, MsgUnseenLabels, MsgUnknownCategories,
              MsgNaN, MsgFeatures}

C3_Witness ==
    /\ Returned
    /\ Last.exc.type = "AttributeError"
    /\ Last.result.text = MsgStrAccessor

(* C4: for a valid record the feature vector has width 5 + 3 + one-hot     *)
(* width, and holds the label codes of Partner, Dependents, PhoneService,  *)
(* PaperlessBilling, gender, then the scaled tenure, MonthlyCharges,       *)
(* TotalCharges, then the one-hot block in fit-time column order.          *)
OneHotWidth == Len(Flatten(FittedOneHotEncoder))

RECURSIVE Offset(_)
Offset(j) == IF j = 1 THEN 0 ELSE Offset(j - 1) + Len(FittedOneHotEncoder[j - 1])

C4_Layout ==
    Returned /\ ValidRecord(Last.data) =>
        LET X == Last.X
            d == Last.data
            lab == <<"Partner", "Dependents", "PhoneService", "PaperlessBilling", "gender">>
            num == <<"tenure", "MonthlyCharges", "TotalCharges">>
        IN  /\ Len(X) = 5 + 3 + OneHotWidth
            /\ \A i \in 1..5 :
                 /\ ~X[i].nan /\ X[i].den = 1
                 /\ X[i].num \in 0..(Len(FittedLabelEncoders[lab[i]]) - 1)
                 /\ FittedLabelEncoders[lab[i]][X[i].num + 1] = d[lab[i]].s
            /\ \A i \in 1..3 :
                 LET lo == min_max_scaler[i].data_min
                     hi == min_max_scaler[i].data_max
                 IN  /\ ~X[5 + i].nan
                     /\ X[5 + i].num = d[num[i]].n - lo
                     /\ X[5 + i].den = IF hi = lo THEN 1 ELSE hi - lo
            /\ \A j \in 1..Len(one_hot_encode_cols) :
                 \A k \in 1..Len(FittedOneHotEncoder[j]) :
                   X[8 + Offset(j) + k] =
                     Cell(IF FittedOneHotEncoder[j][k] = d[one_hot_encode_cols[j]].s
                          THEN 1 ELSE 0)

C4_Witness ==
    /\ Returned
    /\ ValidRecord(Last.data)
    /\ Last.data.Contract = Str(<<"Two", WS, "year">>)
    /\ Len(Last.X) = 39

(* C5 as stated: with a fitted min equal to the fitted max, a call that    *)
(* reaches the scaling step ends in an error; no scaled value is handed to *)
(* the classifier.                                                         *)
DegenerateScale == \E i \in 1..3 : min_max_scaler[i].data_min = min_max_scaler[i].data_max

C5_DegenerateScaleRaises ==
    Returned /\ DegenerateScale /\ Last.X # <<>>
    => ~Last.invoked /\ Last.result.text \notin Verdicts

(* C6: a predict call is served only after launch, launch happens only     *)
(* after all five artifacts loaded, and after a failed load the module     *)
(* never launches and never serves a call.                                 *)
C6_NoPartialService ==
    [][ /\ status' = "serving" =>
             /\ loaded' = 5
             /\ label_encoders' = FittedLabelEncoders
             /\ one_hot_encoder' = FittedOneHotEncoder
             /\ min_max_scaler' \in ScalerFits
             /\ model' = FittedModel
             /\ le_target' \in TargetFits
        /\ call' # <<>> => status' = "serving"
        /\ status = "failed" => status' = "failed" /\ call' = <<>> ]_vars

C6_Witness == status = "failed" /\ loaded = 3 /\ call = <<>>

(* C7: a call that raised nothing returns "Churn" exactly when the decoded *)
(* label is 'Yes', and "No Churn" for every other decoded label.           *)
C7_ChurnIffYes ==
    Returned /\ Last.exc = NoExc =>
        /\ Last.label \in Range(le_target)
        /\ Last.result.text = "Churn" <=> Last.label = <<"Yes">>
        /\ Last.label # <<"Yes">> => Last.result.text = "No Churn"

C7_Witness ==
    /\ Returned
    /\ Last.exc = NoExc
    /\ Last.label = <<"yes">>
    /\ Last.result.text = "No Churn"

(* C9: padding a categorical value with leading or trailing whitespace     *)
(* changes nothing: the call gives the feature vector, the error and the   *)
(* result of the record with every categorical value unpadded.             *)
FirstInk(s) == CHOOSE i \in 1..Len(s) : s[i] # WS /\ \A j \in 1..(i - 1) : s[j] = WS
LastInk(s) == CHOOSE i \in 1..Len(s) : s[i] # WS /\ \A j \in (i + 1)..Len(s) : s[j] = WS
Unpadded(v) ==
    IF v.t # "str" THEN v
    ELSE IF \A i \in 1..Len(v.s) : v.s[i] = WS THEN Str(<<>>)
    ELSE Str([i \in 1..(LastInk(v.s) - FirstInk(v.s) + 1) |-> v.s[FirstInk(v.s) + i - 1]])

UnpaddedRecord(data) ==
    [f \in Fields |-> IF f \in Categorical THEN Unpadded(data[f]) ELSE data[f]]

C9_PaddingIgnored ==
    Returned =>
        LET plain == predict(label_encoders, one_hot_encoder, min_max_scaler, model,
                             le_target, UnpaddedRecord(Last.data))
        IN  /\ Last.X = plain.X
            /\ Last.exc = plain.exc
            /\ Last.result = plain.result

C9_Witness ==
    /\ Returned
    /\ Last.data.Partner = Str(<<WS, "Yes">>)
    /\ Last.data.Contract = Scenario.Contract
    /\ Last.exc = NoExc
    /\ Last.X[1] = Cell(1)

(* C10: SeniorCitizen has no influence: the call gives the feature vector, *)
(* the error and the result of the record with SeniorCitizen = 0.          *)
C10_SeniorCitizenUnused ==
    Returned =>
        LET zero == predict(label_encoders, one_hot_encoder, min_max_scaler, model,
                            le_target, [Last.data EXCEPT !.SeniorCitizen = Num(0)])
        IN  /\ Last.X = zero.X
            /\ Last.exc = zero.exc
            /\ Last.result = zero.result

C10_Witness ==
    /\ Returned
    /\ Last.data.SeniorCitizen = Str(<<"x">>)
    /\ Last.result.text \in Verdicts

-----------------------------------------------------------------------------
(* Call history.  The first call with a base record is kept as the         *)
(* reference, with the transformers it ran on; `other` records that a call *)
(* with a different record came after it.                                  *)

MaxRepeatEdits == 0

Observed(pin, out, arts) ==
    IF pin = <<>>
    THEN IF out.data \in BaseRecords
         THEN << [data |-> out.data, X |-> out.X, exc |-> out.exc, result |-> out.result,
                  arts |-> arts, other |-> FALSE] >>
         ELSE <<>>
    ELSE IF out.data # pin[1].data THEN << [pin[1] EXCEPT !.other = TRUE] >>
    ELSE pin

PredictObserved(data) ==
    /\ PredictCall(data)
    /\ pinned' = Observed(pinned, call'[1], artifacts)

RECURSIVE SendObserved(_, _, _)
SendObserved(r, k, from) ==
    \/ PredictObserved(r)
    \/ /\ k > 0
       /\ \E j \in from..Len(Parameters) : \E v \in FieldValues(Parameters[j]) :
            SendObserved(Edit(r, Parameters[j], v), k - 1, j + 1)

NextHistory ==
    \/ LoadLabelEncoders
    \/ LoadOneHotEncoder
    \/ LoadMinMaxScaler
    \/ LoadModel
    \/ LoadTarget
    \/ LoadFails
    \/ Launch
    \/ Accepting /\ \E base \in BaseRecords : SendObserved(base, MaxRepeatEdits, 1)
    \/ Respond

SpecHistory == Init /\ [][NextHistory]_vars

(* C8: no call changes a loaded transformer, and a record sent again,      *)
(* whatever calls came in between, gives the same feature vector, the same *)
(* error and the same result as the first time.                            *)
C8_HistoryIndependent ==
    pinned # <<>> =>
        /\ artifacts = pinned[1].arts
        /\ Returned /\ Last.data = pinned[1].data =>
             /\ Last.X = pinned[1].X
             /\ Last.exc = pinned[1].exc
             /\ Last.result = pinned[1].result

C8_Witness ==
    /\ Returned
    /\ pinned # <<>>
    /\ pinned[1].other
    /\ Last.data = pinned[1].data
    /\ Last.result.text \in Verdicts

====
